---------------------------- MODULE Spec2Model ----------------------------
(***************************************************************************)
(* A model of connstring.go of nebula-go: the process-wide TLS             *)
(* configuration registry (RegisterTLSConfig, DeregisterTLSConfig,         *)
(* getTLSConfigFromRegistry under tlsConfigLock) and the connection-string *)
(* parser and serializer (ParseConnectionString, String, Redacted).        *)
(*                                                                         *)
(* Three specifications share the variables:                               *)
(*   Spec      the registry, one whole call per step, with the callers'    *)
(*             own *tls.Config objects on a heap they can mutate;          *)
(*   SpecConc  the registry calls of several goroutines, one lock          *)
(*             operation or one map access per step;                       *)
(*   SpecParse parsing, serializing and re-parsing of connection strings   *)
(*             and configurations drawn from bounded sets.                 *)
(***************************************************************************)
EXTENDS Integers, Sequences, FiniteSets, TLC

VARIABLES
    tlsConfigRegistry,  \* [made: is the map non-nil, entries: key -> ref]
    heap,               \* the *tls.Config objects: ref -> [alloc, cfg]
    arrays,             \* backing arrays of the NextProtos slices
    held,               \* the pointers the callers hold, in order of arrival
    lastRegistered,     \* history: what the last Register/Deregister of a key did
    ret,                \* the last call of Spec and what it returned
    tlsConfigLock,      \* the RWMutex: [writer, readers]
    pc,                 \* SpecConc: goroutine -> where it is
    call,               \* SpecConc: goroutine -> its call and its result
    committed,          \* SpecConc: the registry as of the last Unlock
    phase,              \* SpecParse: what has been done so far
    input,              \* SpecParse: the connection string given to the parser
    parsed,             \* SpecParse: what ParseConnectionString(input) returned
    connConfig,         \* SpecParse: the ConnectionConfig at hand
    str,                \* SpecParse: connConfig.String()
    redacted,           \* SpecParse: connConfig.Redacted()
    reparsed            \* SpecParse: what ParseConnectionString(str) returned

regVars == <<tlsConfigRegistry, heap, arrays, held, lastRegistered, ret>>
concVars == <<tlsConfigLock, pc, call, committed>>
parseVars == <<phase, input, parsed, connConfig, str, redacted, reparsed>>
vars == <<tlsConfigRegistry, heap, arrays, held, lastRegistered, ret,
          tlsConfigLock, pc, call, committed,
          phase, input, parsed, connConfig, str, redacted, reparsed>>

---------------------------------------------------------------------------
(* Bounds *)
MaxObj == 3
MaxHeld == 2

---------------------------------------------------------------------------
(* The registry's keys and the tls.Config values *)

ReservedKeys == {"", "true", "false", "0", "1", "skip-verify"}
ProfileKeys == {"custom", "other"}
Keys == ReservedKeys \cup ProfileKeys
\* The keys the calls of Spec are made with.
CallKeys == {"", "skip-verify"} \cup ProfileKeys

Absent == -1
NilRef == 0
Refs == 1..MaxObj
\* One backing array is enough to share.
ArrRefs == {1}
ProtoNames == {"h2", "http"}

\* The fields of a tls.Config that the model keeps: one scalar field and one
\* slice field (the slice header, naming its backing array; 0 is a nil slice).
ConfigFields == [InsecureSkipVerify : BOOLEAN, NextProtos : {0} \cup ArrRefs]
ZeroConfig == [InsecureSkipVerify |-> FALSE, NextProtos |-> 0]
FreeCell == [alloc |-> FALSE, cfg |-> ZeroConfig]

NilMapEntries == [k \in Keys |-> Absent]

\* What a pointer leads to, slices followed into their backing arrays.
DeepIn(h, a, r) ==
    IF r = Absent THEN [present |-> FALSE, nil |-> TRUE, isv |-> FALSE, protos |-> <<>>]
    ELSE IF r = NilRef THEN [present |-> TRUE, nil |-> TRUE, isv |-> FALSE, protos |-> <<>>]
    ELSE [present |-> TRUE, nil |-> FALSE,
          isv |-> h[r].cfg.InsecureSkipVerify,
          protos |-> IF h[r].cfg.NextProtos = 0 THEN <<>>
                     ELSE <<a[h[r].cfg.NextProtos]>>]

\* The struct itself: its fields, a slice as its header.
ShallowIn(h, r) ==
    IF r = Absent THEN [present |-> FALSE, nil |-> TRUE, cfg |-> ZeroConfig]
    ELSE IF r = NilRef THEN [present |-> TRUE, nil |-> TRUE, cfg |-> ZeroConfig]
    ELSE [present |-> TRUE, nil |-> FALSE, cfg |-> h[r].cfg]

HeldRefs(hs) == {hs[i].ref : i \in 1..Len(hs)}
EntryRefs(es) == {es[k] : k \in Keys}

\* Objects no pointer leads to any more are reclaimed (Go's collector).
Collect(h, hs, es, extra) ==
    [r \in Refs |-> IF r \in HeldRefs(hs) \cup EntryRefs(es) \cup extra
                    THEN h[r] ELSE FreeCell]

FreeRefs(h) == {r \in Refs : ~h[r].alloc}
NewRef(h) == CHOOSE r \in FreeRefs(h) : \A q \in FreeRefs(h) : r <= q

\* (*tls.Config).Clone: nil for nil, otherwise a new object with every field
\* copied by value, so a slice field shares its backing array with the original.
Clone(h, c) ==
    IF c = NilRef THEN [ref |-> NilRef, heap |-> h]
    ELSE [ref |-> NewRef(h),
          heap |-> [h EXCEPT ![NewRef(h)] = [alloc |-> TRUE, cfg |-> h[c].cfg]]]
CanClone(h, c) == c = NilRef \/ FreeRefs(h) # {}

\* The switch at the head of RegisterTLSConfig.
ReservedKeyErrorNoSkipVerify(key) ==
    IF key = "" THEN "missing key"
    ELSE IF key \in {"true", "false", "0", "1"} THEN "reserved"
    ELSE ""
ReservedKeyError(key) ==
    IF key = "" THEN "missing key"
    ELSE IF key \in {"true", "false", "0", "1", "skip-verify"} THEN "reserved"
    ELSE ""

---------------------------------------------------------------------------
(* Strings. Positions count from 1, where Go's count from 0; 0 is Go's -1. *)

Chr(s, i) == SubSeq(s, i, i)
From(s, i) == SubSeq(s, i, Len(s))
Upto(s, n) == SubSeq(s, 1, n)
MinOf(S) == CHOOSE x \in S : \A y \in S : x <= y
MaxOf(S) == CHOOSE x \in S : \A y \in S : x >= y
Occurrences(s, sub) ==
    {i \in 1..(Len(s) - Len(sub) + 1) : SubSeq(s, i, i + Len(sub) - 1) = sub}
Index(s, sub) == IF Occurrences(s, sub) = {} THEN 0 ELSE MinOf(Occurrences(s, sub))
LastIndex(s, sub) == IF Occurrences(s, sub) = {} THEN 0 ELSE MaxOf(Occurrences(s, sub))
Contains(s, sub) == Occurrences(s, sub) # {}
HasPrefix(s, p) == Len(s) >= Len(p) /\ Upto(s, Len(p)) = p
HasSuffix(s, p) == Len(s) >= Len(p) /\ From(s, Len(s) - Len(p) + 1) = p
Cut(s, sep) ==
    IF Index(s, sep) = 0 THEN [before |-> s, after |-> "", found |-> FALSE]
    ELSE [before |-> Upto(s, Index(s, sep) - 1),
          after |-> From(s, Index(s, sep) + Len(sep)), found |-> TRUE]
RECURSIVE Split(_, _)
Split(s, sep) ==
    IF ~Contains(s, sep) THEN <<s>>
    ELSE <<Cut(s, sep).before>> \o Split(Cut(s, sep).after, sep)
RECURSIVE Join(_, _)
Join(ss, sep) ==
    IF Len(ss) = 0 THEN ""
    ELSE IF Len(ss) = 1 THEN ss[1]
    ELSE ss[1] \o sep \o Join(Tail(ss), sep)
CharsOf(s) == {Chr(s, i) : i \in 1..Len(s)}

LowerLetters == "abcdefghijklmnopqrstuvwxyz"
UpperLetters == "ABCDEFGHIJKLMNOPQRSTUVWXYZ"
DecimalDigits == "0123456789"
IsLetter(c) == c \in CharsOf(LowerLetters) \cup CharsOf(UpperLetters)
IsDigit(c) == c \in CharsOf(DecimalDigits)
AllDigits(s) == \A i \in 1..Len(s) : IsDigit(Chr(s, i))
RECURSIVE ToLower(_)
ToLower(s) ==
    IF s = "" THEN ""
    ELSE (IF Chr(s, 1) \in CharsOf(UpperLetters)
          THEN Chr(LowerLetters, Index(UpperLetters, Chr(s, 1)))
          ELSE Chr(s, 1)) \o ToLower(From(s, 2))

\* The printable ASCII characters in code order: 0x20 to 0x5F, and 0x61 to
\* 0x7E (a TLA+ string cannot hold 0x60, the backquote; no input has one).
PrintableLow ==
    " !\"#$%&'()*+,-./0123456789:;<=>?@ABCDEFGHIJKLMNOPQRSTUVWXYZ[\\]^_"
PrintableHigh == "abcdefghijklmnopqrstuvwxyz{|}~"
CodeOf(c) ==
    IF Contains(PrintableLow, c) THEN 31 + Index(PrintableLow, c)
    ELSE 96 + Index(PrintableHigh, c)
HasChar(code) == (code >= 32 /\ code <= 95) \/ (code >= 97 /\ code <= 126)
CharOf(code) ==
    IF code <= 95 THEN Chr(PrintableLow, code - 31) ELSE Chr(PrintableHigh, code - 96)
UpperHex == "0123456789ABCDEF"
LowerHex == "0123456789abcdef"
IsHex(c) == c \in CharsOf(UpperHex) \cup CharsOf(LowerHex)
Unhex(c) == IF c \in CharsOf(UpperHex) THEN Index(UpperHex, c) - 1 ELSE Index(LowerHex, c) - 1

\* strconv.Itoa and strconv.Atoi (base 10, an optional sign, at least one digit).
RECURSIVE Itoa(_)
Itoa(n) ==
    IF n < 0 THEN "-" \o Itoa(0 - n)
    ELSE IF n < 10 THEN Chr(DecimalDigits, n + 1)
    ELSE Itoa(n \div 10) \o Chr(DecimalDigits, (n % 10) + 1)
RECURSIVE DigitsValue(_)
DigitsValue(s) ==
    IF s = "" THEN 0
    ELSE 10 * DigitsValue(Upto(s, Len(s) - 1)) + (Index(DecimalDigits, Chr(s, Len(s))) - 1)
\* Numbers of more than MaxDigits digits are left to the inputs' bound.
MaxDigits == 9
Atoi(s) ==
    LET signed == s # "" /\ Chr(s, 1) \in {"+", "-"}
        digits == IF signed THEN From(s, 2) ELSE s
    IN  IF digits = "" \/ ~AllDigits(digits) \/ Len(digits) > MaxDigits
        THEN [ok |-> FALSE, n |-> 0]
        ELSE [ok |-> TRUE,
              n |-> IF signed /\ Chr(s, 1) = "-" THEN 0 - DigitsValue(digits)
                    ELSE DigitsValue(digits)]

---------------------------------------------------------------------------
(* net/url, as far as connstring.go uses it. The escaping modes are "host",  *)
(* "userpw" (encodeUserPassword), "query" (encodeQueryComponent) and "path". *)

ShouldEscape(c, mode) ==
    IF IsLetter(c) \/ IsDigit(c) THEN FALSE
    ELSE IF mode = "host" /\ c \in CharsOf("!$&'()*+,;=:[]<>\"") THEN FALSE
    ELSE IF c \in CharsOf("-_.~") THEN FALSE
    ELSE IF c \in CharsOf("$&+,/:;=?@")
         THEN (IF mode = "path" THEN c = "?"
               ELSE IF mode = "userpw" THEN c \in CharsOf("@/?:")
               ELSE TRUE)
    ELSE TRUE

PercentEncoded(c) ==
    "%" \o Chr(UpperHex, (CodeOf(c) \div 16) + 1) \o Chr(UpperHex, (CodeOf(c) % 16) + 1)

RECURSIVE Escape(_, _)
Escape(s, mode) ==
    IF s = "" THEN ""
    ELSE (IF ~ShouldEscape(Chr(s, 1), mode) THEN Chr(s, 1)
          ELSE IF Chr(s, 1) = " " /\ mode = "query" THEN "+"
          ELSE PercentEncoded(Chr(s, 1))) \o Escape(From(s, 2), mode)

\* unescape's first pass: are the % escapes well formed, and has the host no
\* character that a host cannot hold?
RECURSIVE WellEscaped(_, _)
WellEscaped(s, mode) ==
    IF s = "" THEN TRUE
    ELSE IF Chr(s, 1) = "%"
         THEN /\ Len(s) >= 3 /\ IsHex(Chr(s, 2)) /\ IsHex(Chr(s, 3))
              /\ ~(mode = "host" /\ Unhex(Chr(s, 2)) < 8 /\ Upto(s, 3) # "%25")
              /\ HasChar(16 * Unhex(Chr(s, 2)) + Unhex(Chr(s, 3)))
              /\ WellEscaped(From(s, 4), mode)
    ELSE /\ ~(mode = "host" /\ Chr(s, 1) # "+" /\ ShouldEscape(Chr(s, 1), "host"))
         /\ WellEscaped(From(s, 2), mode)

RECURSIVE Unescaped(_, _)
Unescaped(s, mode) ==
    IF s = "" THEN ""
    ELSE IF Chr(s, 1) = "%"
         THEN CharOf(16 * Unhex(Chr(s, 2)) + Unhex(Chr(s, 3))) \o Unescaped(From(s, 4), mode)
    ELSE (IF Chr(s, 1) = "+" /\ mode = "query" THEN " " ELSE Chr(s, 1))
         \o Unescaped(From(s, 2), mode)

Unescape(s, mode) ==
    IF WellEscaped(s, mode) THEN [ok |-> TRUE, s |-> Unescaped(s, mode)]
    ELSE [ok |-> FALSE, s |-> ""]

\* getScheme, its loop from position i on.
RECURSIVE GetSchemeFrom(_, _)
GetSchemeFrom(rawURL, i) ==
    IF i > Len(rawURL) THEN [ok |-> TRUE, scheme |-> "", rest |-> rawURL]
    ELSE IF IsLetter(Chr(rawURL, i)) THEN GetSchemeFrom(rawURL, i + 1)
    ELSE IF IsDigit(Chr(rawURL, i)) \/ Chr(rawURL, i) \in {"+", "-", "."}
         THEN (IF i = 1 THEN [ok |-> TRUE, scheme |-> "", rest |-> rawURL]
               ELSE GetSchemeFrom(rawURL, i + 1))
    ELSE IF Chr(rawURL, i) = ":"
         THEN (IF i = 1 THEN [ok |-> FALSE, scheme |-> "", rest |-> ""]
               ELSE [ok |-> TRUE, scheme |-> Upto(rawURL, i - 1), rest |-> From(rawURL, i + 1)])
    ELSE [ok |-> TRUE, scheme |-> "", rest |-> rawURL]
getScheme(rawURL) == GetSchemeFrom(rawURL, 1)

\* validOptionalPort: "" or ":" followed by digits only.
validOptionalPort(port) ==
    port = "" \/ (Chr(port, 1) = ":" /\ AllDigits(From(port, 2)))

\* parseHost: the port after the last "]" of a bracketed host, or after the
\* last ":" of another, must be a valid optional port; then the host is unescaped.
\* (A zone, "%25" inside brackets, is in no input.)
parseHost(host) ==
    IF HasPrefix(host, "[")
    THEN (IF LastIndex(host, "]") = 0 THEN [ok |-> FALSE, s |-> ""]
          ELSE IF ~validOptionalPort(From(host, LastIndex(host, "]") + 1))
               THEN [ok |-> FALSE, s |-> ""]
          ELSE Unescape(host, "host"))
    ELSE IF LastIndex(host, ":") # 0 /\ ~validOptionalPort(From(host, LastIndex(host, ":")))
         THEN [ok |-> FALSE, s |-> ""]
    ELSE Unescape(host, "host")

validUserinfo(s) ==
    \A i \in 1..Len(s) :
        \/ IsLetter(Chr(s, i)) \/ IsDigit(Chr(s, i))
        \/ Chr(s, i) \in CharsOf("-._:~!$&'()*+,;=%@")

FailedAuthority ==
    [ok |-> FALSE, HasUser |-> FALSE, Username |-> "", Password |-> "",
     PasswordSet |-> FALSE, Host |-> ""]

\* parseAuthority: the host after the last "@", the userinfo before it.
UserOfAuthority(userinfo, name, pass) ==
    IF ~validUserinfo(userinfo) THEN FailedAuthority
    ELSE IF ~Contains(userinfo, ":")
         THEN (IF ~name.ok THEN FailedAuthority
               ELSE [ok |-> TRUE, HasUser |-> TRUE, Username |-> name.s,
                     Password |-> "", PasswordSet |-> FALSE, Host |-> ""])
    ELSE IF ~name.ok \/ ~pass.ok THEN FailedAuthority
    ELSE [ok |-> TRUE, HasUser |-> TRUE, Username |-> name.s,
          Password |-> pass.s, PasswordSet |-> TRUE, Host |-> ""]
AuthorityOf(host, user) ==
    IF ~host.ok \/ ~user.ok THEN FailedAuthority
    ELSE [user EXCEPT !.Host = host.s]
AuthorityAt(authority, i) ==
    IF i = 0
    THEN AuthorityOf(parseHost(authority),
                     [ok |-> TRUE, HasUser |-> FALSE, Username |-> "", Password |-> "",
                      PasswordSet |-> FALSE, Host |-> ""])
    ELSE AuthorityOf(parseHost(From(authority, i + 1)),
                     UserOfAuthority(Upto(authority, i - 1),
                                     Unescape(Cut(Upto(authority, i - 1), ":").before, "userpw"),
                                     Unescape(Cut(Upto(authority, i - 1), ":").after, "userpw")))
parseAuthority(authority) == AuthorityAt(authority, LastIndex(authority, "@"))

EmptyURL ==
    [ok |-> TRUE, Scheme |-> "", Opaque |-> "", HasUser |-> FALSE, Username |-> "",
     Password |-> "", PasswordSet |-> FALSE, Host |-> "", Path |-> "", RawQuery |-> ""]
FailedURL == [EmptyURL EXCEPT !.ok = FALSE]

\* parse(rawURL, false) in its steps: the scheme, the query cut off at the
\* first "?", then the authority between "//" and the next "/", then the path.
CutQuery(rest) ==
    IF HasSuffix(rest, "?") /\ Cardinality(Occurrences(rest, "?")) = 1
    THEN [rest |-> Upto(rest, Len(rest) - 1), RawQuery |-> ""]
    ELSE [rest |-> Cut(rest, "?").before, RawQuery |-> Cut(rest, "?").after]
URLOf(scheme, rawQuery, hasAuthority, auth, path) ==
    IF (hasAuthority /\ ~auth.ok) \/ ~path.ok THEN FailedURL
    ELSE [ok |-> TRUE, Scheme |-> scheme, Opaque |-> "",
          HasUser |-> hasAuthority /\ auth.HasUser,
          Username |-> IF hasAuthority THEN auth.Username ELSE "",
          Password |-> IF hasAuthority THEN auth.Password ELSE "",
          PasswordSet |-> hasAuthority /\ auth.PasswordSet,
          Host |-> IF hasAuthority THEN auth.Host ELSE "",
          Path |-> path.s, RawQuery |-> rawQuery]
parseRest(scheme, rest, rawQuery) ==
    IF ~HasPrefix(rest, "/") /\ scheme # ""
    THEN [EmptyURL EXCEPT !.Scheme = scheme, !.Opaque = rest, !.RawQuery = rawQuery]
    ELSE IF ~HasPrefix(rest, "/") /\ Contains(Cut(rest, "/").before, ":") THEN FailedURL
    ELSE IF (scheme # "" \/ ~HasPrefix(rest, "///")) /\ HasPrefix(rest, "//")
         THEN URLOf(scheme, rawQuery, TRUE,
                    parseAuthority(Cut(From(rest, 3), "/").before),
                    Unescape(From(From(rest, 3), Len(Cut(From(rest, 3), "/").before) + 1),
                             "path"))
    ELSE URLOf(scheme, rawQuery, FALSE, FailedAuthority, Unescape(rest, "path"))
parseQuery(scheme, q) == parseRest(scheme, q.rest, q.RawQuery)
parseScheme(gs) ==
    IF ~gs.ok THEN FailedURL
    ELSE parseQuery(ToLower(gs.scheme), CutQuery(gs.rest))

\* url.Parse: the fragment cut off, then parse(u, false).
urlParse(rawURL) == parseScheme(getScheme(Cut(rawURL, "#").before))

\* splitHostPort of net/url, behind URL.Hostname and URL.Port.
urlSplitHostPort(hostPort) ==
    LET colon == LastIndex(hostPort, ":")
        split == colon # 0 /\ validOptionalPort(From(hostPort, colon))
        host == IF split THEN Upto(hostPort, colon - 1) ELSE hostPort
    IN  [host |-> IF HasPrefix(host, "[") /\ HasSuffix(host, "]")
                  THEN SubSeq(host, 2, Len(host) - 1) ELSE host,
         port |-> IF split THEN From(hostPort, colon + 1) ELSE ""]
Hostname(u) == urlSplitHostPort(u.Host).host
Port(u) == urlSplitHostPort(u.Host).port

\* url.Values: Query() keeps the pairs of RawQuery that parse, Get the first
\* value of a key.
RECURSIVE QueryGet(_, _)
QueryGet(query, key) ==
    IF query = "" THEN ""
    ELSE LET pair == Cut(query, "&").before
             more == Cut(query, "&").after
             k == Unescape(Cut(pair, "=").before, "query")
             v == Unescape(Cut(pair, "=").after, "query")
         IN  IF Contains(pair, ";") \/ pair = "" \/ ~k.ok \/ ~v.ok \/ k.s # key
             THEN QueryGet(more, key)
             ELSE v.s

\* Values.Encode: the pairs in the order of their keys, each escaped.
RECURSIVE QueryEncode(_)
QueryEncode(pairs) ==
    IF Len(pairs) = 0 THEN ""
    ELSE Escape(pairs[1][1], "query") \o "=" \o Escape(pairs[1][2], "query")
         \o (IF Len(pairs) = 1 THEN "" ELSE "&" \o QueryEncode(Tail(pairs)))

\* Userinfo.String and URL.String.
UserinfoString(u) ==
    Escape(u.Username, "userpw")
    \o (IF u.PasswordSet THEN ":" \o Escape(u.Password, "userpw") ELSE "")

urlString(u) ==
    LET scheme == IF u.Scheme # "" THEN u.Scheme \o ":" ELSE ""
        slashes == IF (u.Scheme # "" \/ u.Host # "" \/ u.HasUser)
                      /\ (u.Host # "" \/ u.Path # "" \/ u.HasUser)
                   THEN "//" ELSE ""
        user == IF (u.Scheme # "" \/ u.Host # "" \/ u.HasUser) /\ u.HasUser
                THEN UserinfoString(u) \o "@" ELSE ""
        host == IF u.Scheme # "" \/ u.Host # "" \/ u.HasUser
                THEN Escape(u.Host, "host") ELSE ""
        path == Escape(u.Path, "path")
        slash == IF path # "" /\ Chr(path, 1) # "/" /\ u.Host # "" THEN "/" ELSE ""
        query == IF u.RawQuery # "" THEN "?" \o u.RawQuery ELSE ""
    IN  scheme \o slashes \o user \o host \o slash \o path \o query

---------------------------------------------------------------------------
(* package net and package time, as far as connstring.go uses them *)

FailedSplit == [ok |-> FALSE, host |-> "", port |-> ""]

\* net.SplitHostPort
netSplitHostPort(hostport) ==
    LET i == LastIndex(hostport, ":")
        end == Index(hostport, "]")
        bracketed == Chr(hostport, 1) = "["
        host == IF bracketed THEN SubSeq(hostport, 2, end - 1) ELSE Upto(hostport, i - 1)
        afterJ == IF bracketed THEN From(hostport, 2) ELSE hostport
        afterK == IF bracketed THEN From(hostport, end + 1) ELSE hostport
    IN  IF i = 0 THEN FailedSplit
        ELSE IF bracketed /\ (end = 0 \/ end # i - 1) THEN FailedSplit
        ELSE IF ~bracketed /\ Contains(host, ":") THEN FailedSplit
        ELSE IF Contains(afterJ, "[") \/ Contains(afterK, "]") THEN FailedSplit
        ELSE [ok |-> TRUE, host |-> host, port |-> From(hostport, i + 1)]

\* net.JoinHostPort
JoinHostPort(host, port) ==
    IF Contains(host, ":") \/ Contains(host, "%")
    THEN "[" \o host \o "]:" \o port
    ELSE host \o ":" \o port

\* net.LookupPort("tcp", service) for a service that is no number: the names
\* the resolver knows, here three of Go's built-in table.
KnownServices == {"http", "https", "ssh"}
ServicePort(service) ==
    IF service = "http" THEN 80 ELSE IF service = "https" THEN 443 ELSE 22
LookupPort(service) ==
    IF service \in KnownServices THEN [ok |-> TRUE, port |-> ServicePort(service)]
    ELSE [ok |-> FALSE, port |-> 0]

\* time.ParseDuration and Duration.String for whole seconds: "0", or one or
\* more of <digits>h, <digits>m, <digits>s. (Signs, fractions and the units
\* below the second are in no input; a duration here is a number of seconds.)
UnitSeconds(u) == IF u = "h" THEN 3600 ELSE IF u = "m" THEN 60 ELSE 1
DigitsPrefix(s) ==
    IF \A i \in 1..Len(s) : IsDigit(Chr(s, i)) THEN Len(s)
    ELSE MinOf({i \in 1..Len(s) : ~IsDigit(Chr(s, i))}) - 1
RECURSIVE ParseDurationSegments(_)
ParseDurationSegments(s) ==
    IF s = "" THEN [ok |-> TRUE, d |-> 0]
    ELSE LET n == DigitsPrefix(s)
             rest == ParseDurationSegments(From(s, n + 2))
         IN  IF n = 0 \/ n > MaxDigits \/ n = Len(s) \/ Chr(s, n + 1) \notin {"h", "m", "s"}
                \/ ~rest.ok
             THEN [ok |-> FALSE, d |-> 0]
             ELSE [ok |-> TRUE,
                   d |-> DigitsValue(Upto(s, n)) * UnitSeconds(Chr(s, n + 1)) + rest.d]
ParseDuration(s) ==
    IF s = "0" THEN [ok |-> TRUE, d |-> 0]
    ELSE IF s = "" THEN [ok |-> FALSE, d |-> 0]
    ELSE ParseDurationSegments(s)
DurationString(d) ==
    IF d >= 3600
    THEN Itoa(d \div 3600) \o "h" \o Itoa((d % 3600) \div 60) \o "m" \o Itoa(d % 60) \o "s"
    ELSE IF d >= 60 THEN Itoa(d \div 60) \o "m" \o Itoa(d % 60) \o "s"
    ELSE Itoa(d) \o "s"

---------------------------------------------------------------------------
(* connstring.go: the parser *)

DEFAULT_PORT == 9669
NEBULA_SCHEME == "nebula"
defaultOnAcquireSession == "USE %SPACE%;"

\* GetDefaultConf() and GetDefaultSessionPoolConfig(), by the defaults that
\* ParseConnectionString documents.
DefaultTimeOut == 0
DefaultIdleTime == 0
DefaultMaxConnPoolSize == 10
DefaultMinConnPoolSize == 0
DefaultMaxIdleSessionPoolSize == 0

NoTLSConfig == [nil |-> TRUE, cfg |-> ZeroConfig]
EmptyConfig ==
    [HostAddresses |-> <<>>,
     TimeOut |-> DefaultTimeOut, IdleTime |-> DefaultIdleTime,
     MaxConnPoolSize |-> DefaultMaxConnPoolSize,
     MinConnPoolSize |-> DefaultMinConnPoolSize,
     MaxIdleSessionPoolSize |-> DefaultMaxIdleSessionPoolSize,
     Username |-> "", Password |-> "", Space |-> "", TLS |-> "",
     TLSConfig |-> NoTLSConfig, OnAcquireSession |-> ""]

\* What a call of the parser returns: err = "" and the configuration, or an
\* error and no configuration; calls counts the invocations of
\* parseConnectionString, parses those of url.Parse.
Failure(err) == [err |-> err, cfg |-> EmptyConfig, calls |-> 1, parses |-> 1]
NoResult == [err |-> "none", cfg |-> EmptyConfig, calls |-> 0, parses |-> 0]

\* checkTCPPort
checkTCPPort(hostPort) ==
    LET pos == Index(hostPort, "]")
        rest == IF pos > 2 THEN From(hostPort, pos) ELSE hostPort
    IN  [stripIPv6Brackets |-> IF pos > 2 THEN SubSeq(hostPort, 2, pos - 1) ELSE hostPort,
         hasPort |-> Contains(rest, ":")]

\* convertToTCPPort
convertToTCPPort(portOrService) ==
    IF Atoi(portOrService).ok THEN [ok |-> TRUE, port |-> Atoi(portOrService).n]
    ELSE LookupPort(portOrService)

\* peekDurationFromQueryString and peekIntFromQueryString: the value to keep
\* (dest as it was when the key is absent), or an error.
peekDurationFromQueryString(query, key, dest) ==
    IF QueryGet(query, key) = "" THEN [ok |-> TRUE, v |-> dest]
    ELSE [ok |-> ParseDuration(QueryGet(query, key)).ok,
          v |-> ParseDuration(QueryGet(query, key)).d]
peekIntFromQueryString(query, key, dest) ==
    IF QueryGet(query, key) = "" THEN [ok |-> TRUE, v |-> dest]
    ELSE [ok |-> Atoi(QueryGet(query, key)).ok, v |-> Atoi(QueryGet(query, key)).n]

\* validateSpace: "" or a match of ^[a-zA-Z0-9_]*$
validateSpace(space) ==
    \A i \in 1..Len(space) :
        IsLetter(Chr(space, i)) \/ IsDigit(Chr(space, i)) \/ Chr(space, i) = "_"

\* getTLSConfig, with getTLSConfigFromRegistry behind it: the value of the
\* *tls.Config it returns.
getTLSConfig(key) ==
    IF key \in {"false", "0"} THEN [ok |-> TRUE, config |-> NoTLSConfig]
    ELSE IF key \in {"true", "1"} THEN [ok |-> TRUE, config |-> [nil |-> FALSE, cfg |-> ZeroConfig]]
    ELSE IF key = "skip-verify"
         THEN [ok |-> TRUE,
               config |-> [nil |-> FALSE,
                           cfg |-> [InsecureSkipVerify |-> TRUE, NextProtos |-> 0]]]
    ELSE IF key \notin Keys \/ tlsConfigRegistry.entries[key] = Absent
         THEN [ok |-> FALSE, config |-> NoTLSConfig]
    ELSE [ok |-> TRUE,
          config |-> [nil |-> ShallowIn(heap, tlsConfigRegistry.entries[key]).nil,
                      cfg |-> ShallowIn(heap, tlsConfigRegistry.entries[key]).cfg]]

\* The body of the host loop for one element of hostPorts: the element has
\* no port; or it splits, and then has an empty port or one to convert.
HostAddressWithPort(host, port) ==
    IF ~port.ok THEN [err |-> "UnresolvablePort", Host |-> "", Port |-> 0]
    ELSE [err |-> "", Host |-> host, Port |-> port.port]
HostAddressSplit(split, defaultPort) ==
    IF ~split.ok THEN [err |-> "InvalidHostPort", Host |-> "", Port |-> 0]
    ELSE IF split.port = "" THEN [err |-> "", Host |-> split.host, Port |-> defaultPort]
    ELSE HostAddressWithPort(split.host, convertToTCPPort(split.port))
HostAddressOf(hostPort, defaultPort) ==
    IF hostPort = "" THEN [err |-> "EmptyHost", Host |-> "", Port |-> 0]
    ELSE IF ~checkTCPPort(hostPort).hasPort
         THEN [err |-> "", Host |-> checkTCPPort(hostPort).stripIPv6Brackets,
               Port |-> defaultPort]
    ELSE HostAddressSplit(netSplitHostPort(hostPort), defaultPort)

\* The host loop: the first element that fails ends it.
HostLoop(hostPorts, defaultPort) ==
    [i \in 1..Len(hostPorts) |-> HostAddressOf(hostPorts[i], defaultPort)]

\* The five options of the query string, resolved in the order of the code.
OptionsOf(timeout, idleTime, maxConn, minConn, maxIdle) ==
    [ok |-> timeout.ok /\ idleTime.ok /\ maxConn.ok /\ minConn.ok /\ maxIdle.ok,
     TimeOut |-> timeout.v, IdleTime |-> idleTime.v,
     MaxConnPoolSize |-> maxConn.v, MinConnPoolSize |-> minConn.v,
     MaxIdleSessionPoolSize |-> maxIdle.v]
QueryOptions(query) ==
    OptionsOf(peekDurationFromQueryString(query, "timeout", DefaultTimeOut),
              peekDurationFromQueryString(query, "idle_time", DefaultIdleTime),
              peekIntFromQueryString(query, "max_conn_pool_size", DefaultMaxConnPoolSize),
              peekIntFromQueryString(query, "min_conn_pool_size", DefaultMinConnPoolSize),
              peekIntFromQueryString(query, "max_idle_session_pool_size",
                                     DefaultMaxIdleSessionPoolSize))

\* defaultPort: DEFAULT_PORT, or what the port of the URL converts to.
DefaultPortOf(defaultPortOrService) ==
    IF defaultPortOrService = "" THEN [ok |-> TRUE, port |-> DEFAULT_PORT]
    ELSE convertToTCPPort(defaultPortOrService)

\* hostPorts: the host of the URL, or the elements of a list.
HostPortsOf(connectionURL) ==
    IF Contains(connectionURL.Host, ",") THEN Split(Hostname(connectionURL), ",")
    ELSE <<connectionURL.Host>>

\* strings.Replace(connectionURL.Path, "/", "", 1)
SpaceOf(path) ==
    IF Contains(path, "/") THEN Cut(path, "/").before \o Cut(path, "/").after ELSE path

\* parseConnectionString from conf := &ConnectionConfig{...} to its return.
ConfigOf(connectionURL, options, space, hosts, tlsOption, tlsConfig) ==
    LET failed == {i \in 1..Len(hosts) : hosts[i].err # ""}
    IN  IF ~validateSpace(space) THEN Failure("InvalidSpace")
        ELSE IF failed # {} THEN Failure(hosts[MinOf(failed)].err)
        ELSE IF tlsOption # "" /\ ~tlsConfig.ok THEN Failure("ProfileNotFound")
        ELSE [err |-> "",
              cfg |-> [HostAddresses |->
                           [i \in 1..Len(hosts) |->
                               [Host |-> hosts[i].Host, Port |-> hosts[i].Port]],
                       TimeOut |-> options.TimeOut, IdleTime |-> options.IdleTime,
                       MaxConnPoolSize |-> options.MaxConnPoolSize,
                       MinConnPoolSize |-> options.MinConnPoolSize,
                       MaxIdleSessionPoolSize |-> options.MaxIdleSessionPoolSize,
                       Username |-> connectionURL.Username,
                       Password |-> connectionURL.Password,
                       Space |-> space,
                       TLS |-> tlsOption,
                       TLSConfig |-> IF tlsOption = "" THEN NoTLSConfig ELSE tlsConfig.config,
                       OnAcquireSession |-> IF space = "" THEN "" ELSE defaultOnAcquireSession],
              calls |-> 1, parses |-> 1]

\* parseConnectionString from query := connectionURL.Query() on.
parseQueryAndPort(connectionURL, options, defaultPort) ==
    IF ~options.ok THEN Failure("InvalidOption")
    ELSE IF ~defaultPort.ok THEN Failure("UnresolvablePort")
    ELSE ConfigOf(connectionURL, options, SpaceOf(connectionURL.Path),
                  HostLoop(HostPortsOf(connectionURL), defaultPort.port),
                  QueryGet(connectionURL.RawQuery, "tls"),
                  getTLSConfig(QueryGet(connectionURL.RawQuery, "tls")))

\* parseConnectionString after url.Parse.
parseConnectionURL(connectionURL) ==
    IF ~connectionURL.ok THEN Failure("MalformedInput")
    ELSE IF connectionURL.Scheme # NEBULA_SCHEME THEN Failure("SchemeMismatch")
    ELSE parseQueryAndPort(connectionURL, QueryOptions(connectionURL.RawQuery),
                           DefaultPortOf(Port(connectionURL)))

\* parseConnectionString after the retry.
parseURL(connectionString) == parseConnectionURL(urlParse(connectionString))

\* parseConnectionString(connectionString, canRetry)
RECURSIVE parseConnectionString(_, _)
parseConnectionStringAlwaysRetrying(connectionString, canRetry) ==
    IF ~HasPrefix(connectionString, NEBULA_SCHEME \o "://")
    THEN [parseConnectionString(NEBULA_SCHEME \o "://" \o connectionString, FALSE)
            EXCEPT !.calls = @ + 1]
    ELSE parseURL(connectionString)
parseConnectionString(connectionString, canRetry) ==
    IF canRetry /\ ~Contains(connectionString, "://")
    THEN [parseConnectionString(NEBULA_SCHEME \o "://" \o connectionString, FALSE)
            EXCEPT !.calls = @ + 1]
    ELSE parseURL(connectionString)

\* ParseConnectionString
ParseConnectionString(connectionString) == parseConnectionString(connectionString, TRUE)

---------------------------------------------------------------------------
(* connstring.go: the serializer *)

\* The hostPort that toURI computes from cfg.HostAddresses.
hostPortAlwaysCompact(cfg) ==
    LET n == Len(cfg.HostAddresses)
        hosts == [i \in 1..n |-> cfg.HostAddresses[i].Host]
    IN  IF n = 0 THEN ""
        ELSE IF n > 1
             THEN "[" \o Join(hosts, ",") \o "]:" \o Itoa(cfg.HostAddresses[1].Port)
        ELSE JoinHostPort(hosts[1], Itoa(cfg.HostAddresses[1].Port))
hostPort(cfg) ==
    LET n == Len(cfg.HostAddresses)
        hosts == [i \in 1..n |-> cfg.HostAddresses[i].Host]
        ports == [i \in 1..n |-> cfg.HostAddresses[i].Port]
        firstPort == cfg.HostAddresses[1].Port
        hasDifferentPorts == \E i \in 1..n : ports[i] # firstPort
    IN  IF n = 0 THEN ""
        ELSE IF hasDifferentPorts
             THEN "[" \o Join([i \in 1..n |-> JoinHostPort(hosts[i], Itoa(ports[i]))], ",") \o "]"
        ELSE IF n > 1 THEN "[" \o Join(hosts, ",") \o "]:" \o Itoa(firstPort)
        ELSE JoinHostPort(hosts[1], Itoa(ports[1]))

\* The query of toURI: the options that differ from their defaults in the
\* order Values.Encode gives them, which is the order of their keys.
QueryOfConfig(cfg) ==
    (IF cfg.IdleTime # DefaultIdleTime
     THEN <<(<<"idle_time", DurationString(cfg.IdleTime)>>)>> ELSE <<>>)
    \o (IF cfg.MaxConnPoolSize # DefaultMaxConnPoolSize
        THEN <<(<<"max_conn_pool_size", Itoa(cfg.MaxConnPoolSize)>>)>> ELSE <<>>)
    \o (IF cfg.MaxIdleSessionPoolSize # DefaultMaxIdleSessionPoolSize
        THEN <<(<<"max_idle_session_pool_size", Itoa(cfg.MaxIdleSessionPoolSize)>>)>> ELSE <<>>)
    \o (IF cfg.MinConnPoolSize # DefaultMinConnPoolSize
        THEN <<(<<"min_conn_pool_size", Itoa(cfg.MinConnPoolSize)>>)>> ELSE <<>>)
    \o (IF cfg.TimeOut # DefaultTimeOut
        THEN <<(<<"timeout", DurationString(cfg.TimeOut)>>)>> ELSE <<>>)
    \o (IF cfg.TLS # "" THEN <<(<<"tls", cfg.TLS>>)>> ELSE <<>>)

\* toURI
toURI(cfg) ==
    [ok |-> TRUE, Scheme |-> "nebula", Opaque |-> "",
     HasUser |-> cfg.Username # "",
     Username |-> cfg.Username,
     Password |-> IF cfg.Username # "" THEN cfg.Password ELSE "",
     PasswordSet |-> cfg.Username # "" /\ cfg.Password # "",
     Host |-> hostPort(cfg),
     Path |-> IF cfg.Space # "" THEN "/" \o cfg.Space ELSE "",
     RawQuery |-> QueryEncode(QueryOfConfig(cfg))]

\* ConnectionConfig.String
String(cfg) == urlString(toURI(cfg))

\* ConnectionConfig.Redacted
RedactedShowingThePassword(cfg) == String(cfg)
Redacted(cfg) ==
    IF toURI(cfg).PasswordSet
    THEN urlString([toURI(cfg) EXCEPT !.HasUser = TRUE, !.Username = cfg.Username,
                                      !.Password = "xxxxx", !.PasswordSet = TRUE])
    ELSE urlString(toURI(cfg))

---------------------------------------------------------------------------
(* Spec: the registry, one whole call per step *)

NoCall == [op |-> "init", key |-> "", err |-> "", ref |-> Absent, h |-> 0]
UnlockedLock == [writer |-> "none", readers |-> {}]
Threads == {"t1", "t2"}
AbsentValue == ShallowIn(<<>>, Absent)
IdleCall == [op |-> "none", key |-> "", arg |-> Absent, err |-> "", val |-> AbsentValue]

\* No connection string has been given and no ConnectionConfig built.
NothingParsed ==
    /\ phase = "start"
    /\ input = ""
    /\ parsed = NoResult
    /\ connConfig = EmptyConfig
    /\ str = ""
    /\ redacted = ""
    /\ reparsed = NoResult

\* The registry as a lookup of each key would find it.
View(reg, h) ==
    [made |-> reg.made, vals |-> [k \in Keys |-> ShallowIn(h, reg.entries[k])]]

InitShared ==
    /\ tlsConfigRegistry = [made |-> FALSE, entries |-> NilMapEntries]
    /\ heap = [r \in Refs |-> FreeCell]
    /\ arrays = [a \in ArrRefs |-> "h2"]
    /\ held = <<>>
    /\ lastRegistered = [k \in Keys |-> ShallowIn(heap, Absent)]
    /\ ret = NoCall
    /\ tlsConfigLock = UnlockedLock
    /\ pc = [t \in Threads |-> "idle"]
    /\ call = [t \in Threads |-> IdleCall]
    /\ committed = View(tlsConfigRegistry, heap)
    /\ NothingParsed

Init == InitShared

\* A caller builds a tls.Config of its own: &tls.Config{...}. A slice literal
\* in it is a backing array of its own, one no other object has yet.
ArrayInUse(h, a) == \E r \in Refs : h[r].alloc /\ h[r].cfg.NextProtos = a
NewConfig(isv, np) ==
    /\ FreeRefs(heap) # {}
    /\ np # 0 => ~ArrayInUse(heap, np)
    /\ Len(held) < MaxHeld
    /\ heap' = [heap EXCEPT ![NewRef(heap)] =
                   [alloc |-> TRUE,
                    cfg |-> [InsecureSkipVerify |-> isv, NextProtos |-> np]]]
    /\ held' = Append(held, [how |-> "new", key |-> "", ref |-> NewRef(heap)])
    /\ ret' = [op |-> "new", key |-> "", err |-> "", ref |-> Absent, h |-> 0]
    /\ UNCHANGED <<tlsConfigRegistry, arrays, lastRegistered, concVars, parseVars>>

\* RegisterTLSConfig(key, config) with config nil or a pointer the caller holds.
RegisterTLSConfig(key, config) ==
    /\ CanClone(heap, config)
    /\ LET err == ReservedKeyError(key)
           c == Clone(heap, config)
           es == [tlsConfigRegistry.entries EXCEPT ![key] = c.ref]
       IN  IF err # ""
           THEN /\ ret' = [op |-> "register", key |-> "", err |-> err,
                           ref |-> Absent, h |-> 0]
                /\ UNCHANGED <<tlsConfigRegistry, heap, lastRegistered>>
           ELSE /\ tlsConfigRegistry' = [made |-> TRUE, entries |-> es]
                /\ heap' = Collect(c.heap, held, es, {})
                /\ lastRegistered' =
                       [lastRegistered EXCEPT ![key] = ShallowIn(heap, config)]
                /\ ret' = [op |-> "register", key |-> "", err |-> "",
                           ref |-> Absent, h |-> 0]
    /\ UNCHANGED <<arrays, held, concVars, parseVars>>

\* DeregisterTLSConfig(key): delete on a non-nil map, nothing on a nil one.
DeregisterEverything(key) ==
    /\ tlsConfigRegistry' = [tlsConfigRegistry EXCEPT !.entries = NilMapEntries]
    /\ heap' = Collect(heap, held, NilMapEntries, {})
    /\ lastRegistered' = [lastRegistered EXCEPT ![key] = ShallowIn(heap, Absent)]
    /\ ret' = [op |-> "deregister", key |-> "", err |-> "", ref |-> Absent, h |-> 0]
    /\ UNCHANGED <<arrays, held, concVars, parseVars>>

DeregisterTLSConfig(key) ==
    /\ LET es == IF tlsConfigRegistry.made
                 THEN [tlsConfigRegistry.entries EXCEPT ![key] = Absent]
                 ELSE tlsConfigRegistry.entries
       IN  /\ tlsConfigRegistry' = [tlsConfigRegistry EXCEPT !.entries = es]
           /\ heap' = Collect(heap, held, es, {})
    /\ lastRegistered' = [lastRegistered EXCEPT ![key] = ShallowIn(heap, Absent)]
    /\ ret' = [op |-> "deregister", key |-> "", err |-> "", ref |-> Absent, h |-> 0]
    /\ UNCHANGED <<arrays, held, concVars, parseVars>>

\* getTLSConfigFromRegistry(key): a clone of the entry, or "not found".
getTLSConfigFromRegistry(key) ==
    /\ Len(held) < MaxHeld
    /\ LET e == tlsConfigRegistry.entries[key]
           c == Clone(heap, e)
       IN  IF e = Absent
           THEN /\ ret' = [op |-> "lookup", key |-> key, err |-> "not found",
                           ref |-> NilRef, h |-> 0]
                /\ UNCHANGED <<heap, held>>
           ELSE /\ CanClone(heap, e)
                /\ heap' = c.heap
                /\ held' = IF c.ref = NilRef THEN held
                           ELSE Append(held, [how |-> "lookup", key |-> key, ref |-> c.ref])
                /\ ret' = [op |-> "lookup", key |-> key, err |-> "", ref |-> c.ref,
                           h |-> IF c.ref = NilRef THEN 0 ELSE Len(held) + 1]
    /\ UNCHANGED <<tlsConfigRegistry, arrays, lastRegistered, concVars, parseVars>>

\* A caller assigns a field of a tls.Config it holds (c.InsecureSkipVerify = b).
AssignField(i, b) ==
    /\ i \in 1..Len(held)
    /\ heap[held[i].ref].cfg.InsecureSkipVerify # b
    /\ heap' = [heap EXCEPT ![held[i].ref].cfg.InsecureSkipVerify = b]
    /\ ret' = [op |-> "assign", key |-> "", err |-> "", ref |-> Absent, h |-> i]
    /\ UNCHANGED <<tlsConfigRegistry, arrays, held, lastRegistered, concVars, parseVars>>

\* A caller writes an element through the slice of a tls.Config it holds
\* (c.NextProtos[0] = v).
WriteElement(i, v) ==
    /\ i \in 1..Len(held)
    /\ heap[held[i].ref].cfg.NextProtos # 0
    /\ arrays[heap[held[i].ref].cfg.NextProtos] # v
    /\ arrays' = [arrays EXCEPT ![heap[held[i].ref].cfg.NextProtos] = v]
    /\ ret' = [op |-> "write", key |-> "", err |-> "", ref |-> Absent, h |-> i]
    /\ UNCHANGED <<tlsConfigRegistry, heap, held, lastRegistered, concVars, parseVars>>

Next ==
    \/ \E isv \in BOOLEAN, np \in {0} \cup ArrRefs : NewConfig(isv, np)
    \/ \E key \in CallKeys, config \in {NilRef} \cup HeldRefs(held) :
           RegisterTLSConfig(key, config)
    \/ \E key \in CallKeys : DeregisterTLSConfig(key)
    \/ \E key \in CallKeys : getTLSConfigFromRegistry(key)
    \/ \E i \in 1..MaxHeld, b \in BOOLEAN : AssignField(i, b)
    \/ \E i \in 1..MaxHeld, v \in ProtoNames : WriteElement(i, v)

Spec == Init /\ [][Next]_vars

---------------------------------------------------------------------------
(* SpecConc: the registry calls of the goroutines in Threads, interleaved.   *)
(* A step is one lock operation or one access of the map. The goroutines     *)
(* share one tls.Config of the caller's (or pass nil).                       *)

CallerConfig == 1

InitConc ==
    /\ tlsConfigRegistry = [made |-> FALSE, entries |-> NilMapEntries]
    /\ heap = [r \in Refs |->
                 IF r = CallerConfig
                 THEN [alloc |-> TRUE,
                       cfg |-> [InsecureSkipVerify |-> TRUE, NextProtos |-> 0]]
                 ELSE FreeCell]
    /\ arrays = [a \in ArrRefs |-> "h2"]
    /\ held = <<[how |-> "new", key |-> "", ref |-> CallerConfig]>>
    /\ lastRegistered = [k \in Keys |-> AbsentValue]
    /\ ret = NoCall
    /\ tlsConfigLock = UnlockedLock
    /\ pc = [t \in Threads |-> "idle"]
    /\ call = [t \in Threads |-> IdleCall]
    /\ committed = View(tlsConfigRegistry, heap)
    /\ NothingParsed

\* sync.RWMutex: Lock waits for no writer and no reader, RLock for no writer.
CanLock(l) == l.writer = "none" /\ l.readers = {}
CanRLockBesideWriter(l) == TRUE
CanRLock(l) == l.writer = "none"

\* RegisterTLSConfig, the switch on the key: a reserved key returns at once.
RegisterSwitch(t, key, config) ==
    /\ pc[t] = "idle"
    /\ call' = [call EXCEPT ![t] = [op |-> "register", key |-> key, arg |-> config,
                                    err |-> ReservedKeyError(key), val |-> AbsentValue]]
    /\ pc' = [pc EXCEPT ![t] = IF ReservedKeyError(key) # "" THEN "returned"
                               ELSE "reg_lock"]
    /\ UNCHANGED <<regVars, tlsConfigLock, committed, parseVars>>

\* tlsConfigLock.Lock()
RegisterLock(t) ==
    /\ pc[t] = "reg_lock"
    /\ CanLock(tlsConfigLock)
    /\ tlsConfigLock' = [tlsConfigLock EXCEPT !.writer = t]
    /\ pc' = [pc EXCEPT ![t] = "reg_make"]
    /\ UNCHANGED <<regVars, call, committed, parseVars>>

\* if tlsConfigRegistry == nil { tlsConfigRegistry = make(...) }
RegisterMake(t) ==
    /\ pc[t] = "reg_make"
    /\ tlsConfigRegistry' = [tlsConfigRegistry EXCEPT !.made = TRUE]
    /\ pc' = [pc EXCEPT ![t] = "reg_store"]
    /\ UNCHANGED <<heap, arrays, held, lastRegistered, ret, tlsConfigLock, call, committed, parseVars>>

\* tlsConfigRegistry[key] = config.Clone()
RegisterStore(t) ==
    /\ pc[t] = "reg_store"
    /\ CanClone(heap, call[t].arg)
    /\ LET c == Clone(heap, call[t].arg)
           es == [tlsConfigRegistry.entries EXCEPT ![call[t].key] = c.ref]
       IN  /\ tlsConfigRegistry' = [tlsConfigRegistry EXCEPT !.entries = es]
           /\ heap' = Collect(c.heap, held, es, {})
    /\ pc' = [pc EXCEPT ![t] = "reg_unlock"]
    /\ UNCHANGED <<arrays, held, lastRegistered, ret, tlsConfigLock, call, committed, parseVars>>

\* The deferred tlsConfigLock.Unlock() of RegisterTLSConfig and DeregisterTLSConfig.
Unlock(t) ==
    /\ pc[t] \in {"reg_unlock", "dereg_unlock"}
    /\ tlsConfigLock' = [tlsConfigLock EXCEPT !.writer = "none"]
    /\ committed' = View(tlsConfigRegistry, heap)
    /\ pc' = [pc EXCEPT ![t] = "returned"]
    /\ UNCHANGED <<regVars, call, parseVars>>

\* DeregisterTLSConfig: tlsConfigLock.Lock()
DeregisterLock(t, key) ==
    /\ pc[t] = "idle"
    /\ CanLock(tlsConfigLock)
    /\ tlsConfigLock' = [tlsConfigLock EXCEPT !.writer = t]
    /\ call' = [call EXCEPT ![t] = [op |-> "deregister", key |-> key, arg |-> Absent,
                                    err |-> "", val |-> AbsentValue]]
    /\ pc' = [pc EXCEPT ![t] = "dereg_delete"]
    /\ UNCHANGED <<regVars, committed, parseVars>>

\* if tlsConfigRegistry != nil { delete(tlsConfigRegistry, key) }
DeregisterDelete(t) ==
    /\ pc[t] = "dereg_delete"
    /\ LET es == IF tlsConfigRegistry.made
                 THEN [tlsConfigRegistry.entries EXCEPT ![call[t].key] = Absent]
                 ELSE tlsConfigRegistry.entries
       IN  /\ tlsConfigRegistry' = [tlsConfigRegistry EXCEPT !.entries = es]
           /\ heap' = Collect(heap, held, es, {})
    /\ pc' = [pc EXCEPT ![t] = "dereg_unlock"]
    /\ UNCHANGED <<arrays, held, lastRegistered, ret, tlsConfigLock, call, committed, parseVars>>

\* getTLSConfigFromRegistry: tlsConfigLock.RLock()
LookupRLock(t, key) ==
    /\ pc[t] = "idle"
    /\ CanRLock(tlsConfigLock)
    /\ tlsConfigLock' = [tlsConfigLock EXCEPT !.readers = @ \cup {t}]
    /\ call' = [call EXCEPT ![t] = [op |-> "lookup", key |-> key, arg |-> Absent,
                                    err |-> "", val |-> AbsentValue]]
    /\ pc' = [pc EXCEPT ![t] = "look_read"]
    /\ UNCHANGED <<regVars, committed, parseVars>>

\* if tlsConfig, ok := tlsConfigRegistry[key]; ok { return tlsConfig.Clone(), nil }
\* The goroutine keeps the copy to itself; the model keeps the copy's value.
LookupRead(t) ==
    /\ pc[t] = "look_read"
    /\ LET e == tlsConfigRegistry.entries[call[t].key]
           c == Clone(heap, e)
       IN  IF e = Absent
           THEN call' = [call EXCEPT ![t].err = "not found"]
           ELSE /\ CanClone(heap, e)
                /\ call' = [call EXCEPT ![t].val = ShallowIn(c.heap, c.ref)]
    /\ pc' = [pc EXCEPT ![t] = "look_runlock"]
    /\ UNCHANGED <<regVars, tlsConfigLock, committed, parseVars>>

\* The deferred tlsConfigLock.RUnlock()
RUnlock(t) ==
    /\ pc[t] = "look_runlock"
    /\ tlsConfigLock' = [tlsConfigLock EXCEPT !.readers = @ \ {t}]
    /\ pc' = [pc EXCEPT ![t] = "returned"]
    /\ UNCHANGED <<regVars, call, committed, parseVars>>

\* The call is over; the goroutine is free to make its next one.
Return(t) ==
    /\ pc[t] = "returned"
    /\ pc' = [pc EXCEPT ![t] = "idle"]
    /\ call' = [call EXCEPT ![t] = IdleCall]
    /\ UNCHANGED <<regVars, tlsConfigLock, committed, parseVars>>

NextConc ==
    \E t \in Threads :
        \/ \E key \in Keys, config \in {NilRef, CallerConfig} : RegisterSwitch(t, key, config)
        \/ RegisterLock(t)
        \/ RegisterMake(t)
        \/ RegisterStore(t)
        \/ Unlock(t)
        \/ \E key \in Keys : DeregisterLock(t, key)
        \/ DeregisterDelete(t)
        \/ \E key \in Keys : LookupRLock(t, key)
        \/ LookupRead(t)
        \/ RUnlock(t)
        \/ Return(t)

SpecConc == InitConc /\ [][NextConc]_vars

WriterInside(t) ==
    pc[t] \in {"reg_make", "reg_store", "reg_unlock", "dereg_delete", "dereg_unlock"}
ReaderInside(t) == pc[t] \in {"look_read", "look_runlock"}

\* C1: the registry never holds a reserved key, and a RegisterTLSConfig call
\* with a reserved key is only ever found returned, with an error, never on its
\* way to the map.
C1_ReservedKeysNeverRegistered ==
    /\ \A k \in ReservedKeys : tlsConfigRegistry.entries[k] = Absent
    /\ \A t \in Threads :
          (call[t].op = "register" /\ call[t].key \in ReservedKeys)
          => (pc[t] = "returned" /\ call[t].err # "")

\* A RegisterTLSConfig("skip-verify", ...) has returned its error while a
\* profile is registered and another goroutine is inside a call.
C1_Witness ==
    \E t \in Threads, u \in Threads :
        /\ pc[t] = "returned" /\ call[t].op = "register"
        /\ call[t].key = "skip-verify" /\ call[t].err = "reserved"
        /\ tlsConfigRegistry.entries["custom"] # Absent
        /\ u # t /\ WriterInside(u)

\* C4: a goroutine that registers or deregisters is alone inside the lock; a
\* lookup shares it with lookups only; and what a lookup reads, while it is
\* inside, is the registry as the last finished write left it, never a write
\* in progress (the first write, which makes the map, included).
C4_WritersExcludeEveryone ==
    /\ \A t \in Threads, u \in Threads :
          (t # u /\ WriterInside(t)) => (~WriterInside(u) /\ ~ReaderInside(u))
    /\ \A t \in Threads :
          ReaderInside(t) => View(tlsConfigRegistry, heap) = committed
    /\ \A t \in Threads :
          pc[t] = "look_runlock"
          => /\ call[t].val = committed.vals[call[t].key]
             /\ (call[t].err = "not found") <=> ~committed.vals[call[t].key].present

\* Two lookups are inside the lock at once, one of them having read a
\* registered, non-nil profile.
C4_Witness ==
    \E t \in Threads, u \in Threads :
        /\ t # u
        /\ pc[t] = "look_runlock" /\ call[t].val.present /\ ~call[t].val.nil
        /\ ReaderInside(u)

---------------------------------------------------------------------------
(* The registry claims checked under Spec *)

Stored(k) == tlsConfigRegistry.entries[k]

\* C2: whatever a caller does to a settings object it holds (the one
\* it passed to RegisterTLSConfig, or one a lookup returned), be it assigning a
\* field or writing through a slice field, the value stored under every key and
\* the value of every other lookup stay as they were.
C2_NoMutationReachesTheRegistry ==
    [][ ret'.op \in {"assign", "write"}
        => /\ \A k \in Keys :
                DeepIn(heap', arrays', tlsConfigRegistry'.entries[k])
                    = DeepIn(heap, arrays, Stored(k))
           /\ \A j \in 1..Len(held) :
                (j # ret'.h /\ held[j].how = "lookup")
                => DeepIn(heap', arrays', held[j].ref) = DeepIn(heap, arrays, held[j].ref)
      ]_vars

\* C3: a lookup of a profile key returns a copy equal to what the latest
\* RegisterTLSConfig of that key was given, or "not found" when the key was
\* never registered or was deregistered since; and the entry of every key is
\* what the latest call on that very key left (calls on other keys, and
\* deregistering an absent key, change nothing).
C3_LookupFollowsLastRegister ==
    /\ (ret.op = "lookup" /\ ret.key \in ProfileKeys)
       => IF lastRegistered[ret.key].present
          THEN ret.err = "" /\ ShallowIn(heap, ret.ref) = lastRegistered[ret.key]
          ELSE ret.err = "not found"
    /\ \A k \in Keys : ShallowIn(heap, Stored(k)) = lastRegistered[k]

\* A lookup has just returned a non-nil copy of "custom" while "other" is
\* registered too.
C3_Witness ==
    /\ ret.op = "lookup" /\ ret.key = "custom" /\ ret.err = ""
    /\ ret.ref \in Refs
    /\ heap[ret.ref].cfg.InsecureSkipVerify
    /\ Stored("other") # Absent

---------------------------------------------------------------------------
(* SpecParse: connection strings parsed, configurations built, rendered and *)
(* parsed again, beside a registry that holds the profile "custom" or not   *)

MaxHosts == 2

\* The connection strings given to ParseConnectionString.
Inputs ==
    {"hostname", "hostname:9669", "nebula://hostname:9669",
     "nebula://alice@h1:9001", "nebula://alice:secret@h1:9001",
     "nebula://h1:9001/mygraph",
     "nebula://h1?timeout=2s", "nebula://h1?idle_time=2s",
     "nebula://h1?max_conn_pool_size=15", "nebula://h1?min_conn_pool_size=4",
     "nebula://h1?max_idle_session_pool_size=10",
     "nebula://h1?tls=false", "nebula://h1?tls=true",
     "nebula://h1?tls=skip-verify", "nebula://h1?tls=custom",
     "nebula://alice:secret@[h1,h2]", "nebula://alice:secret@[h1:9001,h2:9002]",
     "nebula://alice:secret@h1:9001,h2:9002/mygraph?timeout=2s",
     "h1:9001,h2:9002", "h1:9001,h2",
     "nebula://u%40x:p%3Aw@h1", "NEBULA://h1",
     "bad://no-real-scheme", "http://h1", "://h1", "nebula:h1",
     "nebula://h:0", "nebula://[h1:-1,h2]", "nebula://[h1:http,h2]:443",
     "nebula://[h1:nosuch,h2]", "nebula://h1:nosuch",
     "nebula://:9669", "nebula://[]:80", "nebula://", "", "nebula://[h1,,h2]",
     "nebula:///mygraph", "nebula://?timeout=abc",
     "nebula://[::1]:9001", "nebula://[::1]", "nebula://[[::1],[::2]]",
     "nebula://[[::1]:9001,[::2]:9002]",
     "nebula://h1/bad space!", "nebula://h1/sp-ace", "nebula://h1/a/b",
     "nebula://h1?timeout=abc", "nebula://h1?max_conn_pool_size=1x"}

\* The configurations a caller builds by hand.
HostNames == {"h1", "::1"}
PortNumbers == {DEFAULT_PORT, 9001}
HostLists ==
    UNION {[1..n -> [Host : HostNames, Port : PortNumbers]] : n \in 1..MaxHosts}
Usernames == {"", "alice"}
Passwords == {"", "secret", "p:w"}
BuiltOptions ==
    {[Space |-> "", TLS |-> "", TimeOut |-> DefaultTimeOut],
     [Space |-> "mygraph", TLS |-> "skip-verify", TimeOut |-> 90],
     [Space |-> "", TLS |-> "custom", TimeOut |-> DefaultTimeOut]}
Built(hs, u, p, o) ==
    [EmptyConfig EXCEPT !.HostAddresses = hs, !.Username = u, !.Password = p,
                        !.Space = o.Space, !.TLS = o.TLS, !.TimeOut = o.TimeOut,
                        !.OnAcquireSession =
                            IF o.Space = "" THEN "" ELSE defaultOnAcquireSession]

InitParse == InitConc

\* Before anything is parsed the program registers the profile "custom",
\* RegisterTLSConfig("custom", config), and may take it back,
\* DeregisterTLSConfig("custom").
RegisterProfile ==
    /\ phase = "start"
    /\ tlsConfigRegistry.entries["custom"] = Absent
    /\ RegisterTLSConfig("custom", CallerConfig)
DeregisterProfile ==
    /\ phase = "start"
    /\ tlsConfigRegistry.entries["custom"] # Absent
    /\ DeregisterTLSConfig("custom")

\* conf, err := ParseConnectionString(s)
Parse(s) ==
    /\ phase = "start"
    /\ input' = s
    /\ parsed' = ParseConnectionString(s)
    /\ connConfig' = parsed'.cfg
    /\ phase' = IF parsed'.err = "" THEN "config" ELSE "failed"
    /\ UNCHANGED <<regVars, concVars, str, redacted, reparsed>>

\* conf := &ConnectionConfig{...}
Build(c) ==
    /\ phase = "start"
    /\ connConfig' = c
    /\ phase' = "config"
    /\ UNCHANGED <<regVars, concVars, input, parsed, str, redacted, reparsed>>

\* str := conf.String()
Serialize ==
    /\ phase = "config"
    /\ str' = String(connConfig)
    /\ phase' = "string"
    /\ UNCHANGED <<regVars, concVars, input, parsed, connConfig, redacted, reparsed>>

\* redacted := conf.Redacted()
Redact ==
    /\ phase = "string"
    /\ redacted' = Redacted(connConfig)
    /\ phase' = "redacted"
    /\ UNCHANGED <<regVars, concVars, input, parsed, connConfig, str, reparsed>>

\* reparsed, err := ParseConnectionString(str)
Reparse ==
    /\ phase = "string"
    /\ reparsed' = ParseConnectionString(str)
    /\ phase' = "reparsed"
    /\ UNCHANGED <<regVars, concVars, input, parsed, connConfig, str, redacted>>

NextParse ==
    \/ RegisterProfile
    \/ DeregisterProfile
    \/ \E s \in Inputs : Parse(s)
    \/ \E hs \in HostLists, u \in Usernames, p \in Passwords, o \in BuiltOptions :
          Build(Built(hs, u, p, o))
    \/ Serialize
    \/ Redact
    \/ Reparse

SpecParse == InitParse /\ [][NextParse]_vars

---------------------------------------------------------------------------
(* The parser and the serializer, under SpecParse *)

Rendered == phase = "string"
SamePorts(hs) == \A i \in 1..Len(hs) : hs[i].Port = hs[1].Port

\* A configuration the round trip is claimed for: at least one host, every
\* host a name or an IPv6 literal, every port a TCP port, a space that
\* Validate accepts, a password only beside a username, and a TLS mode that
\* is a literal mode or a registered profile.
ValidHost(h) ==
    /\ h # ""
    /\ \A i \in 1..Len(h) :
           IsLetter(Chr(h, i)) \/ IsDigit(Chr(h, i)) \/ Chr(h, i) \in {".", "-", ":"}
ValidConfiguration(c) ==
    /\ Len(c.HostAddresses) > 0
    /\ \A i \in 1..Len(c.HostAddresses) :
           /\ ValidHost(c.HostAddresses[i].Host)
           /\ c.HostAddresses[i].Port \in 1..65535
    /\ validateSpace(c.Space)
    /\ c.Password # "" => c.Username # ""
    /\ c.TLS # "" => getTLSConfig(c.TLS).ok

\* C5: for every valid configuration C, ParseConnectionString(C.String())
\* succeeds and returns the hosts and ports of C in their order, its username
\* and password, its space and its TLS mode string.
C5_RoundTripPreservesTheConfiguration ==
    (phase = "reparsed" /\ ValidConfiguration(connConfig)) =>
        /\ reparsed.err = ""
        /\ reparsed.cfg.HostAddresses = connConfig.HostAddresses
        /\ reparsed.cfg.Username = connConfig.Username
        /\ reparsed.cfg.Password = connConfig.Password
        /\ reparsed.cfg.Space = connConfig.Space
        /\ reparsed.cfg.TLS = connConfig.TLS

\* The calls of ParseConnectionString a state records: what was given, what
\* came back.
Attempts ==
    {a \in {[in |-> input, out |-> parsed], [in |-> str, out |-> reparsed]} :
        a.out.calls > 0}

\* C6: after every successful ParseConnectionString the Port of every
\* HostAddress of the returned configuration is greater than 0.
C6_EveryPortIsPositive ==
    \A a \in Attempts :
        a.out.err = "" =>
            \A i \in 1..Len(a.out.cfg.HostAddresses) : a.out.cfg.HostAddresses[i].Port > 0

\* C7: Redacted() shows the username and the mask "xxxxx" where String()
\* shows a password, so that it is the same for every non-empty password and
\* is String() of the configuration with the mask as its password; where
\* String() shows no password, Redacted() is String().
C7_RedactedHidesThePassword ==
    phase = "redacted" =>
        IF connConfig.Username # "" /\ connConfig.Password # ""
        THEN /\ \A p \in Passwords \ {""} :
                    Redacted([connConfig EXCEPT !.Password = p]) = redacted
             /\ redacted = String([connConfig EXCEPT !.Password = "xxxxx"])
             /\ HasPrefix(redacted,
                          "nebula://" \o Escape(connConfig.Username, "userpw") \o ":xxxxx@")
             /\ connConfig.Password = "secret" => ~Contains(redacted, "secret")
        ELSE redacted = str
C7_Witness ==
    /\ phase = "redacted"
    /\ connConfig.Username = "alice"
    /\ connConfig.Password = "secret"
    /\ Contains(redacted, "alice:xxxxx@")
    /\ Contains(str, "alice:secret@")

\* The notations of C8 as it is worded, every host as it is, and as amended,
\* a host that holds ":" or "%" inside brackets of its own where it stands
\* before its port.
PlainNotation(hs) ==
    IF SamePorts(hs)
    THEN (IF Len(hs) = 1 THEN hs[1].Host \o ":" \o Itoa(hs[1].Port)
          ELSE "[" \o Join([i \in 1..Len(hs) |-> hs[i].Host], ",") \o "]:"
               \o Itoa(hs[1].Port))
    ELSE "[" \o Join([i \in 1..Len(hs) |-> hs[i].Host \o ":" \o Itoa(hs[i].Port)], ",")
         \o "]"
InBrackets(h) == IF Contains(h, ":") \/ Contains(h, "%") THEN "[" \o h \o "]" ELSE h
JoinedNotation(hs) ==
    IF SamePorts(hs)
    THEN (IF Len(hs) = 1 THEN InBrackets(hs[1].Host) \o ":" \o Itoa(hs[1].Port)
          ELSE "[" \o Join([i \in 1..Len(hs) |-> hs[i].Host], ",") \o "]:"
               \o Itoa(hs[1].Port))
    ELSE "[" \o Join([i \in 1..Len(hs) |->
                         InBrackets(hs[i].Host) \o ":" \o Itoa(hs[i].Port)], ",")
         \o "]"

C9_AtMostOneRetry ==
    \A a \in Attempts :
        /\ a.out.calls \in {1, 2}
        /\ a.out.parses = 1
        /\ a.out.calls = 2 <=> ~Contains(a.in, "://")
        /\ a.out.calls = 2 =>
               a.out = [parseURL("nebula://" \o a.in) EXCEPT !.calls = 2]
        /\ (Contains(a.in, "://") /\ urlParse(a.in).ok /\ urlParse(a.in).Scheme # "nebula")
               => a.out.err = "SchemeMismatch"
        /\ a.in = "bad://no-real-scheme" => (a.out.err = "SchemeMismatch" /\ a.out.calls = 1)
C9_Witness ==
    /\ input = "hostname"
    /\ parsed.calls = 2
    /\ parsed.err = ""
    /\ parsed.cfg.HostAddresses = <<[Host |-> "hostname", Port |-> DEFAULT_PORT]>>

\* The host tokens of an input: the hostPorts of the URL that is parsed, when
\* the parser comes that far.
ParsedURL(s) == urlParse(IF Contains(s, "://") THEN s ELSE "nebula://" \o s)
HasEmptyHostToken(s) ==
    /\ ParsedURL(s).ok
    /\ ParsedURL(s).Scheme = NEBULA_SCHEME
    /\ \E i \in 1..Len(HostPortsOf(ParsedURL(s))) : HostPortsOf(ParsedURL(s))[i] = ""

\* C10: an input with an empty host token fails, with EmptyHost unless a
\* check that comes before the token fails first; and every configuration of
\* a successful parse has at least one HostAddress and no empty Host.
C10_NoEmptyHost ==
    \A a \in Attempts :
        /\ HasEmptyHostToken(a.in) =>
               a.out.err \in {"EmptyHost", "InvalidOption", "UnresolvablePort",
                              "InvalidSpace", "InvalidHostPort"}
        /\ a.out.err = "" =>
               /\ Len(a.out.cfg.HostAddresses) > 0
               /\ \A i \in 1..Len(a.out.cfg.HostAddresses) :
                      a.out.cfg.HostAddresses[i].Host # ""

===========================================================================
